---- MODULE Spec2Model ----
(***************************************************************************)
(* Model of docker/piper/piper-http-server.py: a single-threaded           *)
(* http.server.HTTPServer whose handler PiperHandler forwards text to the  *)
(* external piper engine through a temporary file.                         *)
(*                                                                         *)
(* The environment (client, engine process, filesystem, socket) chooses    *)
(* nondeterministically: the request that is read, how the engine process  *)
(* ends, what it leaves in the output file, whether open()/os.unlink()     *)
(* raise, and whether a write to the client socket raises.                 *)
(***************************************************************************)
EXTENDS Integers, Sequences, FiniteSets, TLC

\* ------------------------------------------------------------------ bounds
\* number of client connections that arrive in one behaviour
MaxReq == 2

\* ------------------------------------------------------- program constants
PIPER_BIN == "/usr/local/bin/piper"
MODEL_PATH == <<"models", "de_DE-thorsten-medium.onnx">>
TTS_PATHS == {"/api/tts", "/api/tts/stream"}

\* os.path.basename: the last component of a path
basename(p) == p[Len(p)]

\* --------------------------------------------------------------- the input
Ids == 1..MaxReq
\* names tempfile can hand out; one request creates at most one file
Paths == 1..MaxReq
\* the strings a body's "text" may hold: empty, blank, plain, padded on both
\* sides, and with a blank inside
Strings == {<<>>, <<" ">>, <<"a">>, <<" ", "a", " ">>, <<"a", " ", "a">>}

\* JSON values as json.loads returns them: t is the Python type
JV(t, s) == [t |-> t, s |-> s, has |-> FALSE, tv |-> [t |-> "null", s |-> <<>>]]
JObj(tv) == [t |-> "obj", s |-> <<>>, has |-> TRUE, tv |-> tv]
JEmptyObj == [t |-> "obj", s |-> <<>>, has |-> FALSE, tv |-> [t |-> "null", s |-> <<>>]]
TextValues == {[t |-> "null", s |-> <<>>], [t |-> "num", s |-> <<>>]}
                 \cup {[t |-> "str", s |-> s] : s \in Strings}
JsonValues == {JV("null", <<>>), JV("num", <<>>), JV("arr", <<>>), JV("str", <<"a">>),
               JEmptyObj} \cup {JObj(tv) : tv \in TextValues}
\* request bodies: bytes that are not UTF-8, text that is not JSON, JSON text
Bodies == {[k |-> "badutf8", v |-> JV("null", <<>>)], [k |-> "notjson", v |-> JV("null", <<>>)]}
             \cup {[k |-> "json", v |-> v] : v \in JsonValues}
NoBody == [k |-> "none", v |-> JV("null", <<>>)]
\* a request as the handler reads it; clen is the Content-Length header:
\* "absent", "0", a positive number ("7") or no number at all ("abc")
Request(c, p, l, b) == [command |-> c, path |-> p, clen |-> l, body |-> b]
NoReq == Request("", "", "absent", NoBody)
Requests ==
    {Request("GET", p, "absent", NoBody) : p \in {"/health", "/unknown"}}
      \cup {Request("PUT", "/api/tts", "absent", NoBody)}
      \cup {Request("POST", "/unknown", "absent", NoBody)}
      \cup {Request("POST", p, l, NoBody) : p \in TTS_PATHS, l \in {"absent", "0", "abc"}}
      \cup {Request("POST", p, "7", b) : p \in TTS_PATHS, b \in Bodies}

\* what the engine captures on stderr: bytes, valid UTF-8 or not
StderrSet == {[valid |-> TRUE, s |-> "boom"], [valid |-> FALSE, s |-> "\\xff"]}
NoStderr == [valid |-> TRUE, s |-> ""]
\* what the engine leaves in the output file
AudioSet == {<<>>, <<"RIFF", "data">>}

\* ------------------------------------------------------------- filesystem
\* creator: the connection whose handler created the file; writer: the
\* connection whose engine process last wrote it (0: nobody yet)
NoFile == [creator |-> 0, writer |-> 0, data |-> <<>>]
File(c, w, d) == [creator |-> c, writer |-> w, data |-> d]

\* ------------------------------------------------------------------ state
VARIABLES
    srv,          \* main(): "Uninitialized", "Ready" (serve_forever) or "Exited"
    exitStatus,   \* the process's exit status once Exited
    exitMsg,      \* the message sys.exit printed
    binExists,    \* os.path.exists(PIPER_BIN) at startup
    modelExists,  \* os.path.exists(MODEL_PATH) at startup
    arrived,      \* connections that reached the listening socket so far
    h,            \* per connection: the PiperHandler instance and its position
    disk,         \* the temporary directory: path -> file
    procs         \* the engine processes that are running

vars == <<srv, exitStatus, exitMsg, binExists, modelExists, arrived, h, disk, procs>>

\* a record with some fields replaced
Upd(rec, ch) == [f \in DOMAIN rec |-> IF f \in DOMAIN ch THEN ch[f] ELSE rec[f]]

\* a handler before its connection arrives
H0 == [pc |-> "new", req |-> NoReq, text |-> <<>>, tmp_path |-> 0,
       exc |-> "none", stderr |-> NoStderr, audio_data |-> <<>>,
       hbuf |-> <<>>, wire |-> <<>>, uncaught |-> "none",
       \* history, read by the properties only
       ov |-> FALSE, starts |-> 0, exit |-> "none", fileRead |-> NoFile,
       didRead |-> FALSE, unlinkFailed |-> FALSE, touched |-> {}, wfail |-> FALSE]

Init ==
    /\ srv = "Uninitialized"
    /\ exitStatus = 0
    /\ exitMsg = ""
    /\ binExists \in BOOLEAN
    /\ modelExists \in BOOLEAN
    /\ arrived = 0
    /\ h = [r \in Ids |-> H0]
    /\ disk = [p \in Paths |-> NoFile]
    /\ procs = {}

\* ------------------------------------------------------------ pure helpers
IsSpace(c) == c = " "

RECURSIVE lstrip(_)
lstrip(s) == IF s # <<>> /\ IsSpace(Head(s)) THEN lstrip(Tail(s)) ELSE s

RECURSIVE rstrip(_)
rstrip(s) ==
    IF s # <<>> /\ IsSpace(s[Len(s)]) THEN rstrip(SubSeq(s, 1, Len(s) - 1)) ELSE s

\* str.strip(): leading and trailing whitespace removed
strip_identity(s) == s
strip(s) == rstrip(lstrip(s))

\* int(self.headers.get("Content-Length", 0)), line 41
content_length(l) ==
    CASE l = "absent" -> [exc |-> "none", n |-> 0]
      [] l = "0" -> [exc |-> "none", n |-> 0]
      [] l = "7" -> [exc |-> "none", n |-> 7]
      [] OTHER -> [exc |-> "ValueError", n |-> 0]

\* json.loads(body) of bytes, line 48: undecodable bytes raise
\* UnicodeDecodeError, which is no JSONDecodeError
json_loads(b) ==
    CASE b.k = "badutf8" -> [exc |-> "UnicodeDecodeError", v |-> b.v]
      [] b.k = "json" -> [exc |-> "none", v |-> b.v]
      [] OTHER -> [exc |-> "JSONDecodeError", v |-> b.v]

\* data.get("text", "").strip(), line 53: .get needs a dict, .strip a str
get_text(v) ==
    IF v.t # "obj" THEN [exc |-> "AttributeError", text |-> <<>>]
    ELSE LET tv == IF v.has THEN v.tv ELSE [t |-> "str", s |-> <<>>]
         IN IF tv.t # "str" THEN [exc |-> "AttributeError", text |-> <<>>]
            ELSE [exc |-> "none", text |-> strip(tv.s)]

\* json.dumps(data).encode("utf-8"), line 91, as a sequence of tokens
json_dumps(data) ==
    IF "error" \in DOMAIN data THEN <<"{", "error", data.error, "}">>
    ELSE <<"{", "status", data.status, "model", data.model, "}">>

\* bytes.decode(), line 66
decode(b) == IF b.valid THEN [exc |-> "none", s |-> b.s]
             ELSE [exc |-> "UnicodeDecodeError", s |-> ""]

\* str(e), line 68: the exception's message
str(e) ==
    CASE e = "TimeoutExpired" -> "Command timed out after 30 seconds"
      [] e = "LaunchOSError" -> "[Errno 2] No such file or directory: piper"
      [] e = "ReadOSError" -> "[Errno 2] No such file or directory: tmp"
      [] e = "UnlinkOSError" -> "[Errno 1] Operation not permitted: tmp"
      [] e = "BrokenPipeError" -> "[Errno 32] Broken pipe"
      [] OTHER -> e

\* ------------------------------------------------------ writing a response
HeadBlock(status, ctype, clen) ==
    [k |-> "head", status |-> status, ctype |-> ctype, clen |-> clen, data |-> <<>>]
BodyBlock(data) ==
    [k |-> "body", status |-> 0, ctype |-> "", clen |-> 0, data |-> data]

\* how the write to the client socket goes: both writes succeed, the flush of
\* the headers raises, or the headers are written and the body write raises
WriteOutcomes == {"ok", "fail_headers", "fail_body"}

\* send_response, send_header x2, end_headers, wfile.write (lines 92-96 and
\* 60-64): the status line and headers go to _headers_buffer, end_headers
\* flushes the buffer in one write and empties it only when the write
\* succeeded, then the body is written.
send_body(hs, status, ctype, clen, body, w) ==
    LET hb == Append(hs.hbuf, HeadBlock(status, ctype, clen))
    IN CASE w = "fail_headers" ->
              Upd(hs, [hbuf |-> hb, exc |-> "BrokenPipeError", wfail |-> TRUE])
         [] w = "fail_body" ->
              Upd(hs, [hbuf |-> <<>>, wire |-> hs.wire \o hb, exc |-> "BrokenPipeError",
                       wfail |-> TRUE])
         [] OTHER ->
              Upd(hs, [hbuf |-> <<>>, wire |-> (hs.wire \o hb) \o <<BodyBlock(body)>>])

_send_json(hs, status, data, w) ==
    LET body == json_dumps(data)
    IN send_body(hs, status, "application/json", Len(body), body, w)

\* lines 60-64: the audio response
audio_response_textlen(hs, w) ==
    send_body(hs, 200, "audio/wav", Len(hs.text), hs.audio_data, w)
audio_response(hs, w) ==
    send_body(hs, 200, "audio/wav", Len(hs.audio_data), hs.audio_data, w)

\* the handler method returns, or an exception leaves it: the exception that
\* is still pending is uncaught
Return(hs) == Upd(hs, [pc |-> "done", uncaught |-> hs.exc, exc |-> "none"])
Raise(hs, e) == Upd(hs, [pc |-> "done", uncaught |-> e, exc |-> "none"])

\* ---------------------------------------------------------------- startup
\* main(), lines 105-112: which way main goes
main_skips_model(b, m) == IF ~b THEN "no_binary" ELSE "serve"
main_branch(b, m) ==
    IF ~b THEN "no_binary" ELSE IF ~m THEN "no_model" ELSE "serve"

\* sys.exit(str) prints the message and exits with status 1; HTTPServer(...)
\* binds and listens, or raises OSError, which ends the process with a
\* traceback and status 1; serve_forever does not return
main ==
    /\ srv = "Uninitialized"
    /\ LET br == main_branch(binExists, modelExists)
       IN CASE br = "no_binary" ->
                 /\ srv' = "Exited" /\ exitStatus' = 1
                 /\ exitMsg' = "Error: Piper binary not found"
            [] br = "no_model" ->
                 /\ srv' = "Exited" /\ exitStatus' = 1
                 /\ exitMsg' = "Error: Model not found"
            [] OTHER ->
                 \/ /\ srv' = "Ready" /\ UNCHANGED <<exitStatus, exitMsg>>
                 \/ /\ srv' = "Exited" /\ exitStatus' = 1
                    /\ exitMsg' = "OSError: [Errno 98] Address already in use"
    /\ UNCHANGED <<binExists, modelExists, arrived, h, disk, procs>>

\* ------------------------------------------------------------ connections
Active(hs) == hs.pc \notin {"new", "queued", "closed"}

\* a client connects to the listening socket and waits in its backlog
Arrive ==
    /\ srv = "Ready"
    /\ arrived < MaxReq
    /\ arrived' = arrived + 1
    /\ h' = [h EXCEPT ![arrived + 1] =
                Upd(@, [pc |-> "queued", ov |-> \E q \in Ids : Active(h[q])])]
    /\ UNCHANGED <<srv, exitStatus, exitMsg, binExists, modelExists, disk, procs>>

\* HTTPServer (no ThreadingMixIn), lines 110-112: serve_forever takes the
\* next connection only after the handler of the previous one has returned
idle_threading(hh) == TRUE
idle(hh) == \A q \in Ids : ~Active(hh[q])

\* serve_forever accepts the oldest waiting connection and the handler reads
\* the request line and headers
Accept(r) ==
    /\ srv = "Ready"
    /\ h[r].pc = "queued"
    /\ \A q \in Ids : h[q].pc = "queued" => r <= q
    /\ idle(h)
    /\ \E req \in Requests :
         h' = [h EXCEPT ![r] = Upd(@, [pc |-> "dispatch", req |-> req])]
    /\ UNCHANGED <<srv, exitStatus, exitMsg, binExists, modelExists, arrived, disk, procs>>

HandlerStep(r, hs) ==
    /\ h' = [h EXCEPT ![r] = hs]
    /\ UNCHANGED <<srv, exitStatus, exitMsg, binExists, modelExists, arrived, disk, procs>>

\* class PiperHandler(BaseHTTPRequestHandler) defines do_GET and do_POST
\* only: for any other method the base class answers 501 with an HTML body
unsupported_method(r) ==
    /\ h[r].pc = "dispatch"
    /\ h[r].req.command \notin {"GET", "POST"}
    /\ \E w \in WriteOutcomes :
         HandlerStep(r, Return(send_body(h[r], 501, "text/html;charset=utf-8", 1,
                                         <<"<html>">>, w)))

\* lines 28-33
do_GET(r) ==
    /\ h[r].pc = "dispatch"
    /\ h[r].req.command = "GET"
    /\ \E w \in WriteOutcomes :
         HandlerStep(r,
            IF h[r].req.path = "/health"
            THEN Return(_send_json(h[r], 200,
                          [status |-> "ok", model |-> basename(MODEL_PATH)], w))
            ELSE Return(_send_json(h[r], 404, [error |-> "not found"], w)))

\* lines 35-56: routing and validation, up to the call of _synthesize
do_POST(r) ==
    /\ h[r].pc = "dispatch"
    /\ h[r].req.command = "POST"
    /\ \E w \in WriteOutcomes :
         LET q == h[r].req
             cl == content_length(q.clen)
             js == json_loads(q.body)
             tx == get_text(js.v)
         IN HandlerStep(r,
              IF q.path \notin TTS_PATHS
              THEN Return(_send_json(h[r], 404, [error |-> "not found"], w))
              ELSE IF cl.exc # "none" THEN Raise(h[r], cl.exc)
              ELSE IF cl.n = 0
              THEN Return(_send_json(h[r], 400, [error |-> "empty request body"], w))
              ELSE IF js.exc = "JSONDecodeError"
              THEN Return(_send_json(h[r], 400, [error |-> "invalid JSON"], w))
              ELSE IF js.exc # "none" THEN Raise(h[r], js.exc)
              ELSE IF tx.exc # "none" THEN Raise(h[r], tx.exc)
              ELSE IF tx.text = <<>>
              THEN Return(_send_json(h[r], 400, [error |-> "missing 'text' field"], w))
              ELSE Upd(h[r], [pc |-> "mktemp", text |-> tx.text]))

\* ------------------------------------------------------------ _synthesize
SynthStep(r, hs, d, ps) ==
    /\ h' = [h EXCEPT ![r] = hs]
    /\ disk' = d
    /\ procs' = ps
    /\ UNCHANGED <<srv, exitStatus, exitMsg, binExists, modelExists, arrived>>

\* tempfile.NamedTemporaryFile(suffix=".wav", delete=False), lines 72-73:
\* a name that no file has, opened with O_EXCL
mkstemp_any(d) == Paths
mkstemp(d) == {p \in Paths : d[p] = NoFile}

\* the file at p after it was opened for writing by connection r
created(d, p, r) == IF d[p] = NoFile THEN File(r, 0, <<>>)
                    ELSE File(d[p].creator, 0, <<>>)

NamedTemporaryFile(r) ==
    /\ h[r].pc = "mktemp"
    /\ \E p \in mkstemp(disk) :
         SynthStep(r, Upd(h[r], [pc |-> "run", tmp_path |-> p]),
                   [disk EXCEPT ![p] = created(disk, p, r)], procs)

\* subprocess.run, lines 76-82: Popen starts the engine, or raises OSError
\* when the binary cannot be executed
Proc(r, hs) == [owner |-> r, stdin |-> hs.text, out |-> hs.tmp_path]

subprocess_run(r) ==
    /\ h[r].pc = "run"
    /\ \/ SynthStep(r, Upd(h[r], [pc |-> "wait", starts |-> h[r].starts + 1]),
                    disk, procs \cup {Proc(r, h[r])})
       \/ SynthStep(r, Upd(h[r], [pc |-> "finally", starts |-> h[r].starts + 1,
                                  exit |-> "launchfail", exc |-> "LaunchOSError"]),
                    disk, procs)

\* what the engine did to its --output_file by the time it ended: wrote
\* data into it, or removed it
FileEffects == {[rm |-> FALSE, data |-> a] : a \in AudioSet}
                  \cup {[rm |-> TRUE, data |-> <<>>]}
engine_wrote(d, pr, fx) ==
    [d EXCEPT ![pr.out] =
        IF fx.rm \/ @ = NoFile THEN NoFile ELSE File(@.creator, pr.owner, fx.data)]

\* the engine process exits within the timeout; check=True raises
\* CalledProcessError, carrying the captured stderr, on a non-zero status
engine_exit(r) ==
    /\ h[r].pc = "wait"
    /\ \E pr \in {x \in procs : x.owner = r}, fx \in FileEffects :
         \/ SynthStep(r, Upd(h[r], [pc |-> "read", exit |-> "zero"]),
                      engine_wrote(disk, pr, fx), procs \ {pr})
         \/ \E e \in StderrSet :
              SynthStep(r, Upd(h[r], [pc |-> "finally", exit |-> "nonzero",
                                      exc |-> "CalledProcessError", stderr |-> e]),
                        engine_wrote(disk, pr, fx), procs \ {pr})

\* timeout=30, line 81: subprocess.run kills the process, waits for it and
\* raises TimeoutExpired
engine_timeout(r) ==
    /\ h[r].pc = "wait"
    /\ \E pr \in {x \in procs : x.owner = r}, fx \in FileEffects :
         SynthStep(r, Upd(h[r], [pc |-> "finally", exit |-> "timeout",
                                 exc |-> "TimeoutExpired"]),
                   engine_wrote(disk, pr, fx), procs \ {pr})

\* os.path.exists(tmp_path), line 86
exists_never(d, p) == FALSE
exists(d, p) == d[p] # NoFile

\* lines 83-84: open(tmp_path, "rb") and f.read(); open raises when the file
\* is gone, and either may raise for other reasons
read_output(r) ==
    /\ h[r].pc = "read"
    /\ LET p == h[r].tmp_path
       IN \/ /\ exists(disk, p)
             /\ SynthStep(r, Upd(h[r], [pc |-> "finally", audio_data |-> disk[p].data,
                                        didRead |-> TRUE, fileRead |-> disk[p],
                                        touched |-> h[r].touched \cup {disk[p].creator}]),
                          disk, procs)
          \/ SynthStep(r, Upd(h[r], [pc |-> "finally", exc |-> "ReadOSError"]),
                       disk, procs)

\* lines 85-87: the finally clause; an exception raised by os.unlink
\* replaces the return value or the exception that was on its way out
finally(r) ==
    /\ h[r].pc = "finally"
    /\ LET p == h[r].tmp_path
       IN IF exists(disk, p)
          THEN \/ SynthStep(r, Upd(h[r], [pc |-> "respond",
                                          touched |-> h[r].touched \cup {disk[p].creator}]),
                            [disk EXCEPT ![p] = NoFile], procs)
               \/ SynthStep(r, Upd(h[r], [pc |-> "respond", exc |-> "UnlinkOSError",
                                          unlinkFailed |-> TRUE]),
                            disk, procs)
          ELSE SynthStep(r, Upd(h[r], [pc |-> "respond"]), disk, procs)

\* ------------------------------------------------- do_POST after _synthesize
\* lines 58-68: the try block sends the audio; any exception, also one
\* raised while sending, is answered by _send_json(500, ...)
do_POST_respond(r) ==
    /\ h[r].pc = "respond"
    /\ \E w1 \in WriteOutcomes, w2 \in WriteOutcomes :
         LET hs == h[r]
             sent == audio_response(hs, w1)
             err == decode(hs.stderr)
         IN HandlerStep(r,
              CASE hs.exc = "none" ->
                     IF sent.exc = "none" THEN Return(sent)
                     ELSE Return(_send_json(Upd(sent, [exc |-> "none"]), 500,
                                            [error |-> str(sent.exc)], w2))
                [] hs.exc = "CalledProcessError" ->
                     IF err.exc # "none" THEN Raise(hs, err.exc)
                     ELSE Return(_send_json(Upd(hs, [exc |-> "none"]), 500,
                                            [error |-> "piper failed: " \o err.s], w2))
                [] OTHER ->
                     Return(_send_json(Upd(hs, [exc |-> "none"]), 500,
                                       [error |-> str(hs.exc)], w2)))

\* the handler has returned (or its exception was logged by the server):
\* the connection is closed and the handler instance is dropped
finish(r) ==
    /\ h[r].pc = "done"
    /\ HandlerStep(r, Upd(H0, [pc |-> "closed"]))

\* ------------------------------------------------------------------- next
Next ==
    \/ main
    \/ Arrive
    \/ \E r \in Ids :
         \/ Accept(r)
         \/ unsupported_method(r)
         \/ do_GET(r)
         \/ do_POST(r)
         \/ NamedTemporaryFile(r)
         \/ subprocess_run(r)
         \/ engine_exit(r)
         \/ engine_timeout(r)
         \/ read_output(r)
         \/ finally(r)
         \/ do_POST_respond(r)
         \/ finish(r)

Spec == Init /\ [][Next]_vars

\* ============================================================== properties
Done(r) == h[r].pc = "done"
FilesOf(r) == {p \in Paths : disk[p] # NoFile /\ disk[p].creator = r}
Blank(s) == \A i \in 1..Len(s) : s[i] = " "

\* one complete response on the wire: a header block, then its body
OneResponse(w) == Len(w) = 2 /\ w[1].k = "head" /\ w[2].k = "body"
JsonResponse(w, statuses) ==
    /\ OneResponse(w)
    /\ w[1].status \in statuses
    /\ w[1].ctype = "application/json"
    /\ w[1].clen = Len(w[2].data)
    /\ w[2].data[2] = "error"
AudioHead(f) == HeadBlock(200, "audio/wav", Len(f.data))

\* a POST that asks for synthesis: an accepted path, a non-zero declared
\* length, a JSON object whose "text" is a string that is not blank
WantsSynthesis(q) ==
    /\ q.command = "POST"
    /\ q.path \in TTS_PATHS
    /\ q.clen = "7"
    /\ q.body.k = "json"
    /\ q.body.v.t = "obj"
    /\ q.body.v.has
    /\ q.body.v.tv.t = "str"
    /\ ~Blank(q.body.v.tv.s)

\* the malformed requests of the taxonomy that reach do_GET or do_POST
Malformed(q) ==
    \/ q.command = "GET" /\ q.path # "/health"
    \/ /\ q.command = "POST"
       /\ q.clen # "abc"
       /\ ~WantsSynthesis(q)

\* ---- C1
\* C1 as stated: when a request is finished, no temporary file it created
\* is still on disk, whatever way _synthesize ended.
C1_NoTempFileLeft == \A r \in Ids : Done(r) => FilesOf(r) = {}

\* C1 amended: when a request is finished, no temporary file it created is
\* still on disk, unless os.unlink itself raised for that file.
C1_NoTempFileLeftUnlessUnlinkRaised ==
    \A r \in Ids : Done(r) /\ ~h[r].unlinkFailed => FilesOf(r) = {}

\* the engine timed out, the file was there to delete, and it is gone
C1_Witness ==
    \E r \in Ids :
        /\ Done(r) /\ h[r].exit = "timeout" /\ ~h[r].unlinkFailed
        /\ r \in h[r].touched /\ FilesOf(r) = {}

\* ---- C2
\* C2: every finished request has exactly one response on the wire, one
\* status line and header block followed by one body; never more than one
\* status line, and (when no write to the socket raised) never none.
C2_ExactlyOneResponse ==
    \A r \in Ids :
        Done(r) =>
            /\ Cardinality({i \in 1..Len(h[r].wire) : h[r].wire[i].k = "head"}) <= 1
            /\ ~h[r].wfail => OneResponse(h[r].wire)

\* ---- C3
\* C3: a malformed request is answered with one 4xx JSON error response,
\* the engine is never started for it, and no exception leaves the handler
\* (stated for the runs in which no write to the socket raised).
C3_MalformedIs4xx ==
    \A r \in Ids :
        Done(r) /\ Malformed(h[r].req) /\ ~h[r].wfail =>
            /\ h[r].uncaught = "none"
            /\ JsonResponse(h[r].wire, 400..499)
            /\ h[r].starts = 0

\* ---- C4
\* C4: a failed deletion of the temporary file does not change the outcome:
\* after a zero exit and a successful read the response is still 200 with
\* the audio read, and after an engine failure the error reported is not
\* the deletion failure (stated for the runs in which no write raised).
C4_UnlinkFailureIsSwallowed ==
    \A r \in Ids :
        Done(r) /\ h[r].unlinkFailed /\ ~h[r].wfail =>
            /\ h[r].didRead =>
                 h[r].wire = <<AudioHead(h[r].fileRead), BodyBlock(h[r].fileRead.data)>>
            /\ ~h[r].didRead =>
                 /\ OneResponse(h[r].wire)
                 /\ h[r].wire[2].data # json_dumps([error |-> str("UnlinkOSError")])

\* ---- C5
\* C5: after a non-zero exit the response is 500 with the JSON error
\* "piper failed: " followed by the captured stderr text; after a timeout
\* the engine process is gone and the response is 500 with a JSON error;
\* in neither case is audio sent (stated for the runs in which neither a
\* write to the socket nor os.unlink raised).
C5_EngineFailureIs500 ==
    \A r \in Ids :
        /\ Done(r) /\ h[r].exit \in {"nonzero", "timeout"} =>
             /\ \A pr \in procs : pr.owner # r
             /\ \A i \in 1..Len(h[r].wire) : h[r].wire[i].ctype # "audio/wav"
        /\ Done(r) /\ h[r].exit = "timeout" /\ ~h[r].wfail /\ ~h[r].unlinkFailed =>
             JsonResponse(h[r].wire, {500})
        /\ Done(r) /\ h[r].exit = "nonzero" /\ ~h[r].wfail /\ ~h[r].unlinkFailed =>
             /\ JsonResponse(h[r].wire, {500})
             /\ h[r].wire[2].data[3] = "piper failed: " \o h[r].stderr.s

C7_ReadyOnlyIfConfigured ==
    /\ [](/\ srv = "Ready" => binExists /\ modelExists
          /\ srv # "Uninitialized" /\ ~(binExists /\ modelExists) =>
                /\ srv = "Exited" /\ exitStatus # 0 /\ exitMsg # ""
                /\ arrived = 0 /\ \A r \in Ids : h[r].pc = "new"
          /\ arrived > 0 => srv = "Ready")
    /\ [][srv = "Ready" => srv' = "Ready"]_vars

\* the binary is there, the model is not: the process has exited
C7_Witness ==
    srv = "Exited" /\ binExists /\ ~modelExists /\ exitStatus = 1

\* ---- C8
\* C8: requests do not interfere: no two handlers hold the same temporary
\* path, the file at a handler's path is the one that handler created, a
\* handler reads and deletes no file of another request, every engine
\* process is fed its own request's text and writes its own request's
\* path, and the audio a request sends is what its own engine run wrote.
C8_RequestsDoNotInterfere ==
    /\ \A r \in Ids :
         /\ h[r].tmp_path # 0 =>
              /\ \A q \in Ids \ {r} : h[q].tmp_path # h[r].tmp_path
              /\ disk[h[r].tmp_path] # NoFile => disk[h[r].tmp_path].creator = r
         /\ h[r].touched \subseteq {r}
         /\ h[r].didRead => h[r].fileRead.writer = r
         /\ \A i \in 2..Len(h[r].wire) :
              h[r].wire[i].k = "body" /\ h[r].wire[i - 1].status = 200
              /\ h[r].wire[i - 1].ctype = "audio/wav"
                => h[r].didRead /\ h[r].wire[i].data = h[r].fileRead.data
    /\ \A pr \in procs :
         /\ pr.stdin = h[pr.owner].text
         /\ pr.out = h[pr.owner].tmp_path
         /\ \A qr \in procs \ {pr} : qr.out # pr.out

\* a request that arrived while another was being handled returns its own
\* audio while a file of the other request is still on disk
C8_Witness ==
    \E r \in Ids :
        /\ Done(r) /\ h[r].ov /\ h[r].didRead /\ ~h[r].wfail
        /\ h[r].wire = <<AudioHead(h[r].fileRead), BodyBlock(h[r].fileRead.data)>>
        /\ h[r].fileRead.data # <<>>
        /\ \E p \in Paths : disk[p] # NoFile /\ disk[p].creator # r

C10_OneAtATime ==
    /\ Cardinality(procs) <= 1
    /\ Cardinality({p \in Paths : disk[p] # NoFile}) <= 1
    /\ Cardinality({r \in Ids : Active(h[r])}) <= 1
    /\ \A r \in Ids : h[r].pc = "queued" => h[r].req = NoReq /\ h[r].wire = <<>>

\* C10 amended: at most one engine process runs, at most one temporary file
\* of a request that is still being handled exists (files whose deletion
\* failed in earlier requests may remain beside it), at most one request
\* is being handled, and a waiting request has not been processed.
C10_OneAtATimeBesideLeftovers ==
    /\ Cardinality(procs) <= 1
    /\ Cardinality({p \in Paths : disk[p] # NoFile /\ h[disk[p].creator].pc # "closed"}) <= 1
    /\ Cardinality({r \in Ids : Active(h[r])}) <= 1
    /\ \A r \in Ids : h[r].pc = "queued" => h[r].req = NoReq /\ h[r].wire = <<>>

\* a connection waits in the backlog while the engine of another runs
C10_Witness ==
    \E r \in Ids, q \in Ids :
        /\ h[r].pc = "wait" /\ Proc(r, h[r]) \in procs
        /\ disk[h[r].tmp_path] # NoFile
        /\ h[q].pc = "queued"
====
